---- MODULE Spec2Model ----
(***************************************************************************)
(* Model of src/server.js: an Express proxy in front of the CWA open-data  *)
(* weather API.  A request resolves a city slug through CWA_CITY_MAP,      *)
(* getWeatherByCity issues one axios.get and reshapes the reply into a     *)
(* list of forecasts, or answers with a JSON error body.                   *)
(*                                                                         *)
(* Strings of the source that are not ASCII are written by their code      *)
(* points: "u81FAu5317u5E02" is the three-character name of Taipei City,   *)
(* "u767Eu5206u6BD4" the percent unit and "u00B0" the degree sign.  The    *)
(* fixed texts of the error bodies are written as ASCII glosses.           *)
(***************************************************************************)
EXTENDS Integers, Sequences, FiniteSets, TLC

(* ---------------------------- bounds ---------------------------------- *)
NumReqs == 2
MaxElems == 2
MaxTime == 2

(* ------------------------ JavaScript values --------------------------- *)
Undefined == "<undefined>"

FalsyUndefinedOnly(v) == v = Undefined

\* `!v` for a value that is a string or undefined
Falsy(v) == v \in {Undefined, ""}

\* obj.f for an object whose property f, when present, holds a string
GetStr(obj, f) == IF f \in DOMAIN obj THEN obj[f] ELSE Undefined

UpperAlphabet ==
    <<"A","B","C","D","E","F","G","H","I","J","K","L","M",
      "N","O","P","Q","R","S","T","U","V","W","X","Y","Z">>
LowerAlphabet ==
    <<"a","b","c","d","e","f","g","h","i","j","k","l","m",
      "n","o","p","q","r","s","t","u","v","w","x","y","z">>

LowerChar(c) ==
    IF \E i \in DOMAIN UpperAlphabet : UpperAlphabet[i] = c
    THEN LowerAlphabet[CHOOSE i \in DOMAIN UpperAlphabet : UpperAlphabet[i] = c]
    ELSE c

UpperChar(c) ==
    IF \E i \in DOMAIN LowerAlphabet : LowerAlphabet[i] = c
    THEN UpperAlphabet[CHOOSE i \in DOMAIN LowerAlphabet : LowerAlphabet[i] = c]
    ELSE c

\* String.prototype.toLowerCase on a string given as its characters
toLowerCase(s) == [i \in DOMAIN s |-> LowerChar(s[i])]

RECURSIVE Join(_)
\* the string spelled by a sequence of characters
Join(s) == IF s = <<>> THEN "" ELSE Head(s) \o Join(Tail(s))

(* --------------------------- CWA_CITY_MAP ----------------------------- *)
CWA_CITY_MAP ==
    ("taipei" :> "u81FAu5317u5E02") @@
    ("newtaipei" :> "u65B0u5317u5E02") @@
    ("taoyuan" :> "u6843u5712u5E02") @@
    ("taichung" :> "u81FAu4E2Du5E02") @@
    ("tainan" :> "u81FAu5357u5E02") @@
    ("kaohsiung" :> "u9AD8u96C4u5E02") @@
    ("keelung" :> "u57FAu9686u5E02") @@
    ("hsinchu" :> "u65B0u7AF9u5E02") @@
    ("hsinchucounty" :> "u65B0u7AF9u7E23") @@
    ("miaoli" :> "u82D7u6817u7E23") @@
    ("changhua" :> "u5F70u5316u7E23") @@
    ("nantou" :> "u5357u6295u7E23") @@
    ("yunlin" :> "u96F2u6797u7E23") @@
    ("chiayi" :> "u5609u7FA9u5E02") @@
    ("chiayicounty" :> "u5609u7FA9u7E23") @@
    ("pingtung" :> "u5C4Fu6771u7E23") @@
    ("yilan" :> "u5B9Cu862Du7E23") @@
    ("hualien" :> "u82B1u84EEu7E23") @@
    ("taitung" :> "u81FAu6771u7E23") @@
    ("penghu" :> "u6F8Eu6E56u7E23") @@
    ("kinmen" :> "u91D1u9580u7E23") @@
    ("lianjiang" :> "u9023u6C5Fu7E23")

\* what every object literal inherits from Object.prototype, by the
\* all-lowercase property names a lowercased slug can spell; the values are
\* the function Object and the prototype object, as a template literal
\* renders them
ObjectPrototype ==
    ("constructor" :> "function Object() { [native code] }") @@
    ("__proto__" :> "[object Object]")

\* CWA_CITY_MAP[key]: an own property, else an inherited one, else undefined
Lookup(key) ==
    IF key \in DOMAIN CWA_CITY_MAP THEN CWA_CITY_MAP[key]
    ELSE IF key \in DOMAIN ObjectPrototype THEN ObjectPrototype[key]
    ELSE Undefined

(* ------------------------- request slugs ------------------------------ *)
KeyChars == {
    <<"t","a","i","p","e","i">>,
    <<"n","e","w","t","a","i","p","e","i">>,
    <<"t","a","o","y","u","a","n">>,
    <<"t","a","i","c","h","u","n","g">>,
    <<"t","a","i","n","a","n">>,
    <<"k","a","o","h","s","i","u","n","g">>,
    <<"k","e","e","l","u","n","g">>,
    <<"h","s","i","n","c","h","u">>,
    <<"h","s","i","n","c","h","u","c","o","u","n","t","y">>,
    <<"m","i","a","o","l","i">>,
    <<"c","h","a","n","g","h","u","a">>,
    <<"n","a","n","t","o","u">>,
    <<"y","u","n","l","i","n">>,
    <<"c","h","i","a","y","i">>,
    <<"c","h","i","a","y","i","c","o","u","n","t","y">>,
    <<"p","i","n","g","t","u","n","g">>,
    <<"y","i","l","a","n">>,
    <<"h","u","a","l","i","e","n">>,
    <<"t","a","i","t","u","n","g">>,
    <<"p","e","n","g","h","u">>,
    <<"k","i","n","m","e","n">>,
    <<"l","i","a","n","j","i","a","n","g">> }

Capitalize(s) == [i \in DOMAIN s |-> IF i = 1 THEN UpperChar(s[i]) ELSE s[i]]
Shout(s) == [i \in DOMAIN s |-> UpperChar(s[i])]

OtherChars == {
    <<"m","a","r","s">>,
    <<"t","a","i","p","e","i","1">>,
    <<"t","a","i">>,
    <<"c","o","n","s","t","r","u","c","t","o","r">>,
    <<"_","_","p","r","o","t","o","_","_">>,
    <<"t","o","S","t","r","i","n","g">>,
    <<"v","a","l","u","e","O","f">> }

AllSlugs ==
    KeyChars \cup OtherChars
    \cup {Capitalize(s) : s \in KeyChars \cup OtherChars}
    \cup {Shout(s) : s \in KeyChars \cup OtherChars}

(* ------------------------- upstream replies --------------------------- *)
PercentUnit == "u767Eu5206u6BD4"
CelsiusUnit == "C"
DegreeSign == "u00B0"

Codes == {"Wx", "PoP", "MinT", "MaxT", "CI", "WS", "UVI"}
Units == {PercentUnit, CelsiusUnit, "m/s", Undefined}

StartTimeOf(i) == "T" \o ToString(6 * (i - 1))
EndTimeOf(i) == "T" \o ToString(6 * i)
NameOf(code, i) == code \o ToString(i)

\* a parameter object; an Undefined unit is a parameter without parameterUnit
Parameter(name, unit) ==
    IF unit = Undefined THEN [parameterName |-> name]
    ELSE [parameterName |-> name, parameterUnit |-> unit]

\* one weatherElement entry carrying len time entries
Element(code, len, unit) ==
    [elementName |-> code,
     time |-> [i \in 1..len |->
                 [startTime |-> StartTimeOf(i), endTime |-> EndTimeOf(i),
                  parameter |-> Parameter(NameOf(code, i), unit)]]]

ElemPool == {Element(c, l, u) : c \in Codes, l \in 0..MaxTime, u \in Units}

CodesOf(elems) == {elems[k].elementName : k \in DOMAIN elems}

RECURSIVE ElemSeqs(_)
\* the weatherElement lists of at most n elements, one element per code
ElemSeqs(n) ==
    IF n = 0 THEN {<<>>}
    ELSE LET S == ElemSeqs(n - 1)
             L == {t \in S : Len(t) = n - 1}
         IN S \cup {Append(p[1], p[2]) :
                      p \in {q \in L \X ElemPool : q[2].elementName \notin CodesOf(q[1])}}

DatasetDescription == "u4E09u5341u516Du5C0Fu6642u5929u6C23u9810u5831"
UpstreamCity == "u81FAu5317u5E02"

LocationRecord(elems) == [locationName |-> UpstreamCity, weatherElement |-> elems]

\* bodies of a 2xx reply
DataNoRecords == [t |-> "object", success |-> "true"]
DataNoLocation ==
    [t |-> "object", records |-> [datasetDescription |-> DatasetDescription]]
DataWith(locations) ==
    [t |-> "object",
     records |-> [datasetDescription |-> DatasetDescription, location |-> locations]]

OkReply(data) == [kind |-> "ok", status |-> 200, data |-> data]
HttpErrorReply(status, data) == [kind |-> "http", status |-> status, data |-> data]
TransportFailure == [kind |-> "transport", code |-> "ECONNREFUSED"]

\* bodies of a non-2xx reply
ErrorBodies ==
    { [t |-> "object", message |-> "Service Unavailable"],
      [t |-> "object", message |-> ""],
      [t |-> "object", code |-> "E503"],
      [t |-> "string", text |-> "<html>Bad Gateway</html>"],
      [t |-> "null"] }

ErrorStatuses == {401, 404, 503}

ErrorReplies ==
    {HttpErrorReply(st, d) : st \in ErrorStatuses, d \in ErrorBodies}
    \cup {TransportFailure}

ShapeReplies ==
    {OkReply(DataNoRecords), OkReply(DataNoLocation), OkReply(DataWith(<<>>))}

ForecastReplies == {OkReply(DataWith(<<LocationRecord(e)>>)) : e \in ElemSeqs(MaxElems)}

\* every reply of the model
AllReplies == ErrorReplies \cup ShapeReplies \cup ForecastReplies

\* a few replies of every kind
SomeReplies ==
    { HttpErrorReply(503, [t |-> "object", message |-> "Service Unavailable"]),
      HttpErrorReply(404, [t |-> "null"]),
      TransportFailure,
      OkReply(DataNoLocation),
      OkReply(DataWith(<<>>)),
      OkReply(DataWith(<<LocationRecord(<<Element("Wx", 1, Undefined)>>)>>)),
      OkReply(DataWith(<<LocationRecord(
          <<Element("PoP", 1, PercentUnit), Element("MinT", 0, CelsiusUnit)>>)>>)) }

(* --------------------------- responses -------------------------------- *)
\* res.status(status).json(body); res.json(body) alone sends status 200
Json(status, body) == [status |-> status, body |-> body]

ConfigErrorResponse ==
    Json(500, [error |-> "server configuration error",
               message |-> "set CWA_API_KEY in the .env file"])

NotFoundMessage(cityName) ==
    "cannot get " \o cityName \o " weather data, check the city name"

LocationNotFoundAs500(cityName) ==
    Json(500, [error |-> "no data", message |-> NotFoundMessage(cityName)])

LocationNotFoundResponse(cityName) ==
    Json(404, [error |-> "no data", message |-> NotFoundMessage(cityName)])

FallbackMessage(cityName) == "cannot get " \o cityName \o " weather data"

UpstreamErrorResponse(response, cityName) ==
    Json(response.status,
         [error |-> "CWA API error",
          message |-> IF Falsy(GetStr(response.data, "message"))
                      THEN FallbackMessage(cityName)
                      ELSE response.data.message,
          details |-> response.data])

GenericMessage == "cannot get weather data, try again later"

LeakingErrorResponse(error) ==
    Json(500, [error |-> "server error", message |-> error.message])

\* the last response of the catch block; the error is logged, not sent
GenericErrorResponse(error) ==
    Json(500, [error |-> "server error", message |-> GenericMessage])

InvalidSlugMessage(citySlug) ==
    "city code (" \o citySlug \o ") sent by the front end is invalid"

InvalidSlugResponse(citySlug) ==
    Json(404, [success |-> FALSE, error |-> "invalid city code",
               message |-> InvalidSlugMessage(citySlug)])

WelcomeResponse ==
    Json(200, [message |-> "welcome to the CWA weather forecast API",
               endpoints |-> [weather_by_city |-> "/api/weather/:citySlug",
                              health |-> "/api/health"]])

HealthResponse(timestamp) == Json(200, [status |-> "OK", timestamp |-> timestamp])

ErrorMiddlewareResponse(err) ==
    Json(500, [error |-> "server error", message |-> err.message])

RouteNotFoundResponse == Json(404, [error |-> "path not found"])

(* ------------------------ response normalizer ------------------------- *)
AlwaysWithUnit(value, unit, suffix) == value.parameterName \o suffix

\* value.parameterName + (value.parameterUnit === unit ? suffix : '')
WithUnit(value, unit, suffix) ==
    value.parameterName
        \o (IF GetStr(value, "parameterUnit") = unit THEN suffix ELSE "")

\* the forecast object as created at the top of the loop body
NewForecast(first) ==
    [startTime |-> first.startTime, endTime |-> first.endTime,
     weather |-> "", rain |-> "", minTemp |-> "", maxTemp |-> "",
     comfort |-> "", windSpeed |-> ""]

\* the switch on element.elementName
SetField(forecast, element, value) ==
    CASE element.elementName = "Wx" ->
            [forecast EXCEPT !.weather = value.parameterName]
      [] element.elementName = "PoP" ->
            [forecast EXCEPT !.rain = WithUnit(value, PercentUnit, "%")]
      [] element.elementName = "MinT" ->
            [forecast EXCEPT !.minTemp = WithUnit(value, CelsiusUnit, DegreeSign)]
      [] element.elementName = "MaxT" ->
            [forecast EXCEPT !.maxTemp = WithUnit(value, CelsiusUnit, DegreeSign)]
      [] element.elementName = "CI" ->
            [forecast EXCEPT !.comfort = value.parameterName]
      [] element.elementName = "WS" ->
            [forecast EXCEPT !.windSpeed = value.parameterName]
      [] OTHER -> forecast

RECURSIVE ForEachElement(_, _, _)
\* weatherElements.forEach(...) for slot i, folded over the elements in order
ForEachElement(forecast, elems, i) ==
    IF elems = <<>> THEN forecast
    ELSE ForEachElement(SetField(forecast, Head(elems), Head(elems).time[i].parameter),
                        Tail(elems), i)

ForecastAt(elems, i) == ForEachElement(NewForecast(elems[1].time[i]), elems, i)

TimeCount(elems) == Len(elems[1].time)

ForecastsDroppingLast(elems, timeCount) ==
    [i \in 1..(timeCount - 1) |-> ForecastAt(elems, i)]

\* the list the for loop pushes, slot 0 first
Forecasts(elems, timeCount) == [i \in 1..timeCount |-> ForecastAt(elems, i)]

\* the statements of lines 74-116 that raise a TypeError: weatherElements[0]
\* undefined, or element.time[i] undefined for an element with fewer entries
LoopThrows(elems) ==
    \/ Len(elems) = 0
    \/ \E k \in DOMAIN elems : Len(elems[k].time) < TimeCount(elems)

SuccessResponse(locationData, records) ==
    Json(200, [success |-> TRUE,
               data |-> [city |-> locationData.locationName,
                         updateTime |-> GetStr(records, "datasetDescription"),
                         forecasts |-> Forecasts(locationData.weatherElement,
                                                 TimeCount(locationData.weatherElement))]])

(* ------------------------- getWeatherByCity --------------------------- *)
Return(res) == [thrown |-> FALSE, res |-> res]
Throw(error) == [thrown |-> TRUE, error |-> error]

TypeError == [name |-> "TypeError", message |-> "Cannot read properties of undefined"]

\* the error axios.get rejects with
AxiosError(reply) ==
    IF reply.kind = "http"
    THEN [name |-> "AxiosError", message |-> "Request failed with status code",
          response |-> [status |-> reply.status, data |-> reply.data]]
    ELSE [name |-> "AxiosError", message |-> reply.code]

\* the try block from the point where axios.get settles
TryBlock(cityName, reply) ==
    IF reply.kind # "ok" THEN Throw(AxiosError(reply))
    ELSE IF "records" \notin DOMAIN reply.data THEN Throw(TypeError)
    ELSE IF "location" \notin DOMAIN reply.data.records THEN Throw(TypeError)
    ELSE IF Len(reply.data.records.location) = 0
         THEN Return(LocationNotFoundResponse(cityName))
    ELSE IF LoopThrows(reply.data.records.location[1].weatherElement)
         THEN Throw(TypeError)
    ELSE Return(SuccessResponse(reply.data.records.location[1], reply.data.records))

Outcome(sentSeq, rej) == [sent |-> sentSeq, rejected |-> rej]

\* the catch block; reading .message of a null body throws out of it, and the
\* promise of getWeatherByCity, which nobody awaits, is rejected
CatchBlock(error, cityName) ==
    IF "response" \in DOMAIN error
    THEN IF error.response.data.t = "null"
         THEN Outcome(<<>>, TRUE)
         ELSE Outcome(<<UpstreamErrorResponse(error.response, cityName)>>, FALSE)
    ELSE Outcome(<<GenericErrorResponse(error)>>, FALSE)

\* what getWeatherByCity does once axios.get has settled with reply
Settle(cityName, reply) ==
    LET t == TryBlock(cityName, reply)
    IN IF t.thrown THEN CatchBlock(t.error, cityName) ELSE Outcome(<<t.res>>, FALSE)

(* ------------------------------ state --------------------------------- *)
VARIABLES
    CWA_API_KEY,    \* process.env.CWA_API_KEY, read once at start
    pc,             \* per request: "idle", "await" (axios.get pending), "done"
    slug,           \* req.params.citySlug as sent, <<>> on another route
    cityName,       \* the argument of getWeatherByCity, Undefined if not called
    calls,          \* number of axios.get calls issued for the request
    reply,          \* the upstream reply the request received
    sent,           \* the responses written to res, in order
    rejected        \* the promise of getWeatherByCity was rejected, unhandled

vars == <<CWA_API_KEY, pc, slug, cityName, calls, reply, sent, rejected>>

Reqs == 1..NumReqs

NoReply == [kind |-> "none"]

ApiKeys == {Undefined, "", "CWA-0000"}

Init ==
    /\ CWA_API_KEY \in ApiKeys
    /\ pc = [r \in Reqs |-> "idle"]
    /\ slug = [r \in Reqs |-> <<>>]
    /\ cityName = [r \in Reqs |-> Undefined]
    /\ calls = [r \in Reqs |-> 0]
    /\ reply = [r \in Reqs |-> NoReply]
    /\ sent = [r \in Reqs |-> <<>>]
    /\ rejected = [r \in Reqs |-> FALSE]

\* a handler that answers at once
Respond(r, res) ==
    /\ pc[r] = "idle"
    /\ pc' = [pc EXCEPT ![r] = "done"]
    /\ sent' = [sent EXCEPT ![r] = Append(@, res)]
    /\ UNCHANGED <<CWA_API_KEY, slug, cityName, calls, reply, rejected>>

(* ----------------------------- handlers ------------------------------- *)
\* GET /
Root(r) == Respond(r, WelcomeResponse)

Clock == {"2026-01-01T00:00:00.000Z", "2026-01-01T00:00:01.000Z"}

\* GET /api/health
Health(r) == \E now \in Clock : Respond(r, HealthResponse(now))

\* any other path
RouteNotFound(r) == Respond(r, RouteNotFoundResponse)

BodyParseError == [name |-> "SyntaxError", message |-> "Unexpected token in JSON"]

\* express.json() rejects the request body and the error middleware answers
ErrorMiddleware(r) == Respond(r, ErrorMiddlewareResponse(BodyParseError))

\* GET /api/weather/:citySlug, for a slug among slugs, up to the point where
\* getWeatherByCity waits for axios.get (or has answered without calling it)
WeatherRoute(r, slugs) ==
    /\ pc[r] = "idle"
    /\ \E s \in slugs :
        LET citySlug == Join(toLowerCase(s))
            cwaCityName == Lookup(citySlug)
        IN /\ slug' = [slug EXCEPT ![r] = s]
           /\ IF Falsy(cwaCityName)
              THEN /\ pc' = [pc EXCEPT ![r] = "done"]
                   /\ sent' = [sent EXCEPT ![r] = Append(@, InvalidSlugResponse(citySlug))]
                   /\ UNCHANGED <<cityName, calls>>
              ELSE /\ cityName' = [cityName EXCEPT ![r] = cwaCityName]
                   /\ IF Falsy(CWA_API_KEY)
                      THEN /\ pc' = [pc EXCEPT ![r] = "done"]
                           /\ sent' = [sent EXCEPT ![r] = Append(@, ConfigErrorResponse)]
                           /\ UNCHANGED calls
                      ELSE /\ pc' = [pc EXCEPT ![r] = "await"]
                           /\ calls' = [calls EXCEPT ![r] = @ + 1]
                           /\ UNCHANGED sent
    /\ UNCHANGED <<CWA_API_KEY, reply, rejected>>

\* axios.get settles with a reply among replies and getWeatherByCity runs to
\* its end
UpstreamReply(r, replies) ==
    /\ pc[r] = "await"
    /\ \E rep \in replies :
        LET o == Settle(cityName[r], rep)
        IN /\ reply' = [reply EXCEPT ![r] = rep]
           /\ sent' = [sent EXCEPT ![r] = @ \o o.sent]
           /\ rejected' = [rejected EXCEPT ![r] = o.rejected]
    /\ pc' = [pc EXCEPT ![r] = "done"]
    /\ UNCHANGED <<CWA_API_KEY, slug, cityName, calls>>

(* -------------------------- specifications ---------------------------- *)
SomeSlugs ==
    { <<"t","a","i","p","e","i">>,
      <<"T","a","i","n","a","n">>,
      <<"M","a","r","s">>,
      <<"c","o","n","s","t","r","u","c","t","o","r">> }

\* concurrent requests on every route
Next ==
    \E r \in Reqs :
        \/ Root(r)
        \/ Health(r)
        \/ RouteNotFound(r)
        \/ ErrorMiddleware(r)
        \/ WeatherRoute(r, SomeSlugs)
        \/ UpstreamReply(r, SomeReplies)

Spec == Init /\ [][Next]_vars

\* one weather request, every slug
NextResolve ==
    \/ WeatherRoute(1, AllSlugs)
    \/ UpstreamReply(1, SomeReplies)

SpecResolve == Init /\ [][NextResolve]_vars

NormalizeSlugs == { <<"T","a","i","p","e","i">>, <<"p","e","n","g","h","u">> }

\* one weather request, every upstream reply
NextNormalize ==
    \/ WeatherRoute(1, NormalizeSlugs)
    \/ UpstreamReply(1, AllReplies)

SpecNormalize == Init /\ [][NextNormalize]_vars

TypeOK ==
    /\ CWA_API_KEY \in ApiKeys
    /\ \A r \in Reqs : pc[r] \in {"idle", "await", "done"}
    /\ \A r \in Reqs : calls[r] \in 0..1 /\ Len(sent[r]) \in 0..1

(* --------------------- vocabulary of the properties ------------------- *)
IsWeather(r) == slug[r] # <<>>
Lowered(r) == Join(toLowerCase(slug[r]))
Listed(r) == Lowered(r) \in DOMAIN CWA_CITY_MAP
Invoked(r) == cityName[r] # Undefined
Answered(r) == pc[r] = "done"
OneResponse(r) == Len(sent[r]) = 1
IsSuccess(res) == "success" \in DOMAIN res.body /\ res.body.success = TRUE
HasLocation(rep) ==
    /\ rep.kind = "ok"
    /\ "records" \in DOMAIN rep.data
    /\ "location" \in DOMAIN rep.data.records
    /\ Len(rep.data.records.location) > 0
ElemsOf(rep) == rep.data.records.location[1].weatherElement
Succeeded(r) == Answered(r) /\ HasLocation(reply[r]) /\ OneResponse(r) /\ IsSuccess(sent[r][1])
ForecastsOf(r) == sent[r][1].body.data.forecasts
Uniform(elems, n) == \A k \in DOMAIN elems : Len(elems[k].time) = n

(* C1: for every slug that is not a key of the table, mixed-case variants  *)
(* included, the weather route answers 404 and its message carries the     *)
(* slug exactly as the client sent it.                                     *)
C1_UnknownSlugEchoedUnmodified ==
    \A r \in Reqs :
        (IsWeather(r) /\ Answered(r) /\ ~Listed(r)) =>
            /\ OneResponse(r)
            /\ sent[r][1].status = 404
            /\ sent[r][1].body.message = InvalidSlugMessage(Join(slug[r]))

(* C2: getWeatherByCity is invoked if and only if the lowercased slug is a *)
(* key listed in CWA_CITY_MAP, then with that key's value; every other     *)
(* slug, inherited property names included, gets 404 and no upstream call. *)
C2_ExactMatchOnListedKeys ==
    \A r \in Reqs :
        IsWeather(r) =>
            /\ Invoked(r) <=> Listed(r)
            /\ Invoked(r) => Listed(r) /\ cityName[r] = CWA_CITY_MAP[Lowered(r)]
            /\ ~Listed(r) =>
                 /\ calls[r] = 0
                 /\ Answered(r) => OneResponse(r) /\ sent[r][1].status = 404

(* C3: on a success response where every weather element carries N time    *)
(* entries, forecasts has N entries and entry i has the startTime and      *)
(* endTime of the i-th time entry of the first element; with N = 0 the     *)
(* response is still a success, with an empty forecasts list.              *)
C3_OneForecastPerTimeEntry ==
    \A r \in Reqs :
        (Answered(r) /\ HasLocation(reply[r]) /\ Len(ElemsOf(reply[r])) > 0) =>
            LET elems == ElemsOf(reply[r])
                n == Len(elems[1].time)
            IN /\ (Succeeded(r) /\ Uniform(elems, n)) =>
                    /\ Len(ForecastsOf(r)) = n
                    /\ \A i \in 1..n :
                         /\ ForecastsOf(r)[i].startTime = elems[1].time[i].startTime
                         /\ ForecastsOf(r)[i].endTime = elems[1].time[i].endTime
               /\ Uniform(elems, 0) => Succeeded(r) /\ ForecastsOf(r) = <<>>

C3_Witness ==
    /\ Succeeded(1)
    /\ Len(ElemsOf(reply[1])) >= 2
    /\ Uniform(ElemsOf(reply[1]), MaxTime)
    /\ Len(ForecastsOf(1)) >= 2

UnitIs(value, unit) == "parameterUnit" \in DOMAIN value /\ value.parameterUnit = unit
Suffixed(value, unit, suffix) ==
    IF UnitIs(value, unit) THEN value.parameterName \o suffix ELSE value.parameterName

KeyPathAbsent(rep) ==
    /\ rep.kind = "ok"
    /\ \/ "records" \notin DOMAIN rep.data
       \/ "location" \notin DOMAIN rep.data.records
LocationEmpty(rep) ==
    /\ rep.kind = "ok"
    /\ "records" \in DOMAIN rep.data
    /\ "location" \in DOMAIN rep.data.records
    /\ Len(rep.data.records.location) = 0
IsGeneric500(res) ==
    /\ res.status = 500
    /\ DOMAIN res.body = {"error", "message"}
    /\ res.body.error = "server error"
    /\ res.body.message = "cannot get weather data, try again later"

(* C5 as stated: a 2xx reply whose records.location is empty, or whose key *)
(* path records.location is absent, is answered 404.                       *)
C5_EmptyOrAbsentLocationIs404 ==
    \A r \in Reqs :
        (Answered(r) /\ (LocationEmpty(reply[r]) \/ KeyPathAbsent(reply[r]))) =>
            OneResponse(r) /\ sent[r][1].status = 404

(* C5 amended: a 2xx reply whose records.location is an empty array is     *)
(* answered 404 "no data"; a 2xx reply without the key path                *)
(* records.location is caught and answered with the generic 500.           *)
C5_EmptyIs404AbsentIs500 ==
    \A r \in Reqs :
        /\ (Answered(r) /\ LocationEmpty(reply[r])) =>
              /\ OneResponse(r) /\ ~rejected[r]
              /\ sent[r][1].status = 404
              /\ sent[r][1].body.error = "no data"
        /\ (Answered(r) /\ KeyPathAbsent(reply[r])) =>
              OneResponse(r) /\ ~rejected[r] /\ IsGeneric500(sent[r][1])

C5_Witness ==
    /\ Answered(1) /\ LocationEmpty(reply[1])
    /\ OneResponse(1) /\ sent[1][1].status = 404

(* C6: a non-2xx upstream reply with status S is answered with status S,   *)
(* the upstream's message and the upstream body under details, whatever    *)
(* the shape of that body.                                                 *)
C6_UpstreamErrorMirrored ==
    \A r \in Reqs :
        (Answered(r) /\ reply[r].kind = "http") =>
            /\ OneResponse(r)
            /\ sent[r][1].status = reply[r].status
            /\ sent[r][1].body.details = reply[r].data
            /\ ("message" \in DOMAIN reply[r].data /\ reply[r].data.message # "") =>
                   sent[r][1].body.message = reply[r].data.message

(* C7: with the API key absent or empty, every invocation of               *)
(* getWeatherByCity answers 500 with the configuration message and issues  *)
(* no upstream call.                                                       *)
C7_MissingKeyIs500WithoutCall ==
    (CWA_API_KEY = Undefined \/ CWA_API_KEY = "") =>
        \A r \in Reqs :
            Invoked(r) =>
                /\ calls[r] = 0
                /\ Answered(r) /\ OneResponse(r) /\ ~rejected[r]
                /\ sent[r][1].status = 500
                /\ sent[r][1].body.error = "server configuration error"
                /\ sent[r][1].body.message = "set CWA_API_KEY in the .env file"

C7_Witness ==
    /\ CWA_API_KEY = ""
    /\ Invoked(1) /\ Listed(1)
    /\ OneResponse(1) /\ sent[1][1].status = 500 /\ calls[1] = 0

(* C8: every failure of a request is answered with a JSON body that has an *)
(* error and a message field, and no failure escapes as an unhandled       *)
(* rejection.                                                              *)
C8_EveryFailureAnsweredWithErrorAndMessage ==
    \A r \in Reqs :
        /\ ~rejected[r]
        /\ Answered(r) =>
              /\ OneResponse(r)
              /\ sent[r][1].status >= 400 =>
                    {"error", "message"} \subseteq DOMAIN sent[r][1].body

(* C9: a request issues at most one upstream call, none for a slug that is *)
(* not in the table or when the key is missing, never a second one after a *)
(* failure, and its responses are those its own slug and reply determine.  *)
C9_AtMostOneCallNoneForUnknown ==
    \A r \in Reqs :
        /\ calls[r] <= 1
        /\ (~IsWeather(r) \/ ~Listed(r) \/ CWA_API_KEY \in {Undefined, ""}) => calls[r] = 0
        /\ (Answered(r) /\ reply[r] # NoReply) =>
              /\ calls[r] = 1
              /\ sent[r] = Settle(Lookup(Lowered(r)), reply[r]).sent

NoHttpResponseFailure(rep) ==
    \/ rep.kind = "transport"
    \/ KeyPathAbsent(rep)
    \/ /\ HasLocation(rep)
       /\ \/ Len(ElemsOf(rep)) = 0
          \/ \E k \in DOMAIN ElemsOf(rep) :
                Len(ElemsOf(rep)[k].time) < Len(ElemsOf(rep)[1].time)

(* C10: a transport failure, or a TypeError raised on a malformed 2xx      *)
(* payload, is answered with exactly one response: status 500 with the     *)
(* fixed generic message, no exception text, no forecasts, never a         *)
(* success.                                                                *)
C10_NoResponseErrorIsGeneric500 ==
    \A r \in Reqs :
        (Answered(r) /\ NoHttpResponseFailure(reply[r])) =>
            /\ OneResponse(r) /\ ~rejected[r]
            /\ IsGeneric500(sent[r][1])

C10_Witness ==
    /\ Answered(1) /\ HasLocation(reply[1])
    /\ Len(ElemsOf(reply[1])) = 2
    /\ Len(ElemsOf(reply[1])[1].time) = 2
    /\ Len(ElemsOf(reply[1])[2].time) = 1
    /\ OneResponse(1) /\ sent[1][1].status = 500

====
